---- MODULE Spec2Model ----
(***************************************************************************)
(* Model of src/pcan_api_server.py: a Flask server in front of one PCAN    *)
(* CAN adapter.  The module-level globals of the program are the state,    *)
(* each route handler is one action, and the vendor library object `pcan`  *)
(* (PCANBasic, imported at line 2) is the environment: a device with a set *)
(* of initialized channels whose calls return a status.                    *)
(***************************************************************************)
EXTENDS Naturals, Integers, Sequences, FiniteSets, TLC

VARIABLES
    PCAN_HANDLE,                 \* line 15: global handle object
    BAUDRATE,                    \* line 16: global baudrate object
    IS_FD,                       \* line 17
    pcan_initialized,            \* line 18
    is_tpms_collection_active,   \* line 21
    printed_tire_count,          \* line 61-62: the local tire_count, printed only
    dev_channels,                \* device: handle values currently initialized
    dev_kind,                    \* device: how its Uninitialize behaves
    dev_last_call,               \* device: last Initialize/Uninitialize call
    proc,                        \* "serving" or "exited"
    last,                        \* observation of the most recent handler run
    threads,                     \* concurrent requests in flight (SpecThreaded)
    payload,                     \* decoder harness: bytes fed so far
    reading                      \* decoder harness: last parse_sensor_data result

vars == <<PCAN_HANDLE, BAUDRATE, IS_FD, pcan_initialized,
          is_tpms_collection_active, printed_tire_count, dev_channels,
          dev_kind, dev_last_call, proc, last, threads, payload, reading>>

prog_vars == <<PCAN_HANDLE, BAUDRATE, IS_FD, pcan_initialized,
               is_tpms_collection_active, printed_tire_count>>

channel_vars == <<PCAN_HANDLE, BAUDRATE, IS_FD, pcan_initialized>>

tpms_vars == <<is_tpms_collection_active, printed_tire_count>>

device_vars == <<dev_channels, dev_last_call>>

decoder_vars == <<payload, reading>>

----------------------------------------------------------------------------
(* Bounds of the model *)

MaxTires == 1       \* tire_count values tried by POST /api/tpms/start
MaxPayload == 8     \* longest payload fed to the TPMS decoder
NThreads == 2       \* concurrent requests in SpecThreaded

----------------------------------------------------------------------------
(* The names `from PCANBasic import *` brings in (line 2), as far as the   *)
(* model uses them.  An object is named by its constant.                   *)

PCAN_USBBUS1 == "PCAN_USBBUS1"
PCAN_USBBUS2 == "PCAN_USBBUS2"
PCAN_BAUD_500K == "PCAN_BAUD_500K"
PCAN_BAUD_250K == "PCAN_BAUD_250K"

PCAN_ERROR_OK == "PCAN_ERROR_OK"
PCAN_ERROR_QRCVEMPTY == "PCAN_ERROR_QRCVEMPTY"
PCAN_ERROR_INITIALIZE == "PCAN_ERROR_INITIALIZE"
PCAN_ERROR_ILLHW == "PCAN_ERROR_ILLHW"
PCAN_ERROR_BUSOFF == "PCAN_ERROR_BUSOFF"

\* TPCANHandle objects the library defines
KnownHandles == {PCAN_USBBUS1, PCAN_USBBUS2}
\* TPCANBaudrate objects the library defines
KnownBaudrates == {PCAN_BAUD_500K, PCAN_BAUD_250K}

\* Python dict.get(key, default); a JSON body is a function on its keys
DictGet(d, k, default) == IF k \in DOMAIN d THEN d[k] ELSE default

\* Python truthiness of request.get_json(): None and {} are both falsy, and
\* both are the empty function here
NoBody == <<>>
Truthy(data) == DOMAIN data # {}

\* a JSON key that is absent, or present with a value of S
Opt(k, S) == {NoBody} \cup {k :> v : v \in S}

\* line 85-86: globals().get(name, default): any module-level name resolves
GlobalsGet(name, default) ==
    IF name \in KnownHandles \cup KnownBaudrates THEN name ELSE default

\* line 100-101: obj.value if hasattr(obj, 'value') else obj
ValueOf(obj) == obj

----------------------------------------------------------------------------
(* The device behind `pcan` *)

DeviceKinds == {"idempotent", "strict", "faulty"}

\* pcan.Initialize(handle_value, baudrate_value): a value that is no channel
\* handle is refused; a channel may come up or fail (absent, in use)
InitializeResults(handle_value) ==
    IF handle_value \in KnownHandles
    THEN {PCAN_ERROR_OK, PCAN_ERROR_INITIALIZE}
    ELSE {PCAN_ERROR_ILLHW}

\* pcan.Uninitialize(handle): "idempotent" answers OK on any channel,
\* "strict" refuses a channel that is not initialized, "faulty" may fail
UninitializeResultsOn(chans, handle_value) ==
    CASE dev_kind = "idempotent" -> {PCAN_ERROR_OK}
      [] dev_kind = "strict" ->
            IF handle_value \in chans
            THEN {PCAN_ERROR_OK} ELSE {PCAN_ERROR_INITIALIZE}
      [] OTHER -> {PCAN_ERROR_OK, PCAN_ERROR_ILLHW}

\* the device's channels after a call: a non-OK call leaves them alone
AfterInitialize(chans, handle_value, status) ==
    IF status = PCAN_ERROR_OK THEN chans \cup {handle_value} ELSE chans

AfterUninitialize(chans, handle_value, status) ==
    IF status = PCAN_ERROR_OK THEN chans \ {handle_value} ELSE chans

DevCall(op, handle_value, arg, status) ==
    [op |-> op, handle |-> handle_value, arg |-> arg, status |-> status]

\* what the device keeps of its last Initialize/Uninitialize call
LifecycleCall(op, handle_value, status) ==
    [op |-> op, handle |-> handle_value, status |-> status]

----------------------------------------------------------------------------
(* Responses: jsonify(...) with its HTTP code *)

NoError == <<"none">>

Response(code, success, error) ==
    [code |-> code, success |-> success, error |-> error]

\* pcan.GetErrorText(status)[0]: the lookup of a faulty installation fails
GetErrorTextStatus(status) ==
    IF dev_kind = "faulty" THEN PCAN_ERROR_ILLHW ELSE PCAN_ERROR_OK

\* line 23-29
get_error_text(status) ==
    IF GetErrorTextStatus(status) = PCAN_ERROR_OK
    THEN <<"text", status>> ELSE <<"unknown", status>>

\* section 7 of the design: the kind of result a response stands for
ErrorKind(resp) ==
    CASE resp.error[1] = "unhandled" -> "InternalError"
      [] resp.code = 200 -> "Ack"
      [] resp.code = 400 -> "InvalidFormat"
      [] resp.code = 501 -> "NotImplemented"
      [] resp.code = 500 -> "DeviceError"
      [] OTHER -> "Other"

Observation(op, ready_before, req, resp, calls, out) ==
    [op |-> op, again |-> (op = "release" /\ last.op = "release"), ready_before |-> ready_before,
     req |-> req, resp |-> resp, calls |-> calls, out |-> out]

NoCall == LifecycleCall("none", "none", "none")

Idle == [pc |-> "idle"]

\* no request is being handled: the handlers below run one at a time
Serving == proc = "serving" /\ \A t \in DOMAIN threads : threads[t] = Idle

----------------------------------------------------------------------------
(* Channel manager: POST /api/init, lines 73-112 *)

\* names a body may give as "channel" or "baudrate": known identifiers, a
\* baudrate identifier where a channel is meant and the reverse, and a name
\* that is no global of the program
ChannelNames == {"PCAN_USBBUS2", "PCAN_BAUD_250K", "NO_SUCH_NAME"}
BaudrateNames == {"PCAN_BAUD_250K", "NO_SUCH_NAME"}

InitBodies ==
    {c @@ b @@ f : c \in Opt("channel", ChannelNames),
                   b \in Opt("baudrate", BaudrateNames),
                   f \in Opt("is_fd", {TRUE})}
    \cup {"is_fd" :> FALSE}

\* line 83-85, 90
ResolveHandle(data) ==
    IF Truthy(data)
    THEN GlobalsGet(DictGet(data, "channel", "PCAN_USBBUS1"), PCAN_USBBUS1)
    ELSE PCAN_HANDLE

\* line 83, 86, 91
ResolveBaudrate(data) ==
    IF Truthy(data)
    THEN GlobalsGet(DictGet(data, "baudrate", "PCAN_BAUD_500K"), PCAN_BAUD_500K)
    ELSE BAUDRATE

\* line 83, 87: IS_FD is assigned before anything is checked
ResolveIsFd(data) ==
    IF Truthy(data) THEN DictGet(data, "is_fd", FALSE) ELSE IS_FD

\* mutant: the FD branch is never taken
FdRejected_never(is_fd) == FALSE

\* line 93: the FD branch returns before any device call
FdRejected(is_fd) == is_fd

\* mutant: a failed Initialize leaves pcan_initialized as it was (no line 111)
InitializedAfterInit_kept(status) ==
    IF status = PCAN_ERROR_OK THEN TRUE ELSE pcan_initialized

\* line 105-111: pcan_initialized after the device's answer
InitializedAfterInit(status) == status = PCAN_ERROR_OK

\* line 105-107: the handle recorded after the device's answer
HandleAfterInit(status, pcan_handle_obj) ==
    IF status = PCAN_ERROR_OK THEN pcan_handle_obj ELSE PCAN_HANDLE

\* line 79, 105-111: BAUDRATE is declared global in init_can, never assigned
BaudrateAfterInit(status, baudrate_obj) == BAUDRATE

\* line 109, 112
InitResponse(status) ==
    IF status = PCAN_ERROR_OK
    THEN Response(200, TRUE, NoError)
    ELSE Response(500, FALSE, get_error_text(status))

init_can ==
    /\ Serving
    /\ \E data \in InitBodies :
         LET pcan_handle_obj == ResolveHandle(data)
             baudrate_obj == ResolveBaudrate(data)
             is_fd == ResolveIsFd(data)
             handle_value == ValueOf(pcan_handle_obj)
             baudrate_value == ValueOf(baudrate_obj)
         IN  /\ IS_FD' = is_fd
             /\ IF FdRejected(is_fd)
                THEN /\ UNCHANGED <<PCAN_HANDLE, BAUDRATE, pcan_initialized,
                                    device_vars>>
                     /\ last' = Observation("init", pcan_initialized, data,
                                    Response(501, FALSE, <<"fd_not_implemented">>),
                                    <<>>, <<>>)
                ELSE \E status \in InitializeResults(handle_value) :
                       LET call == DevCall("Initialize", handle_value,
                                           baudrate_value, status)
                       IN  /\ dev_channels' =
                                AfterInitialize(dev_channels, handle_value, status)
                           /\ dev_last_call' =
                                LifecycleCall("Initialize", handle_value, status)
                           /\ PCAN_HANDLE' = HandleAfterInit(status, pcan_handle_obj)
                           /\ BAUDRATE' = BaudrateAfterInit(status, baudrate_obj)
                           /\ pcan_initialized' = InitializedAfterInit(status)
                           /\ last' = Observation("init", pcan_initialized, data,
                                          InitResponse(status),
                                          <<call>>, <<>>)
    /\ UNCHANGED <<tpms_vars, dev_kind, proc, threads, decoder_vars>>

----------------------------------------------------------------------------
(* Channel manager: POST /api/release, lines 114-123 *)

\* mutant: release never clears the flag (no line 120)
InitializedAfterRelease_kept(status) == pcan_initialized

\* line 119-120: pcan_initialized after the device's answer
\* mutant: the flag is cleared whatever the device answers
InitializedAfterRelease_always(status) == FALSE

InitializedAfterRelease(status) ==
    IF status = PCAN_ERROR_OK THEN FALSE ELSE pcan_initialized

\* line 121, 123
ReleaseResponse(status) ==
    IF status = PCAN_ERROR_OK
    THEN Response(200, TRUE, NoError)
    ELSE Response(500, FALSE, get_error_text(status))

release_can ==
    /\ Serving
    /\ \E status \in UninitializeResultsOn(dev_channels, ValueOf(PCAN_HANDLE)) :
         LET call == DevCall("Uninitialize", ValueOf(PCAN_HANDLE), "none", status)
         IN  /\ dev_channels' =
                  AfterUninitialize(dev_channels, ValueOf(PCAN_HANDLE), status)
             /\ dev_last_call' =
                  LifecycleCall("Uninitialize", ValueOf(PCAN_HANDLE), status)
             /\ pcan_initialized' = InitializedAfterRelease(status)
             /\ last' = Observation("release", pcan_initialized, NoBody,
                            ReleaseResponse(status), <<call>>, <<>>)
    /\ UNCHANGED <<PCAN_HANDLE, BAUDRATE, IS_FD, tpms_vars, dev_kind, proc,
                   threads, decoder_vars>>

----------------------------------------------------------------------------
(* Channel manager: GET /api/status, lines 125-133 *)

\* pcan.GetStatus(handle): the bus state of an initialized channel
GetStatusResults(handle_value) ==
    IF handle_value \in dev_channels
    THEN {PCAN_ERROR_OK, PCAN_ERROR_BUSOFF}
    ELSE {PCAN_ERROR_INITIALIZE}

get_status ==
    /\ Serving
    /\ \E status \in GetStatusResults(ValueOf(PCAN_HANDLE))  :
         last' = Observation("status", pcan_initialized, NoBody,
                     Response(200, TRUE, NoError),
                     <<DevCall("GetStatus", ValueOf(PCAN_HANDLE), "none", status)>>,
                     [status_code |-> status,
                      status_text |-> get_error_text(status)])
    /\ UNCHANGED <<prog_vars, device_vars, dev_kind, proc, threads, decoder_vars>>

----------------------------------------------------------------------------
(* Process exit: lines 31-40 and 279-282 *)

\* line 31-38, on the state st = [flag, chans, calls]: the status of
\* Uninitialize is not looked at
release_hardware_on_exit(st, status) ==
    IF st.flag
    THEN [flag |-> FALSE,
          chans |-> AfterUninitialize(st.chans, ValueOf(PCAN_HANDLE), status),
          calls |-> Append(st.calls,
                      DevCall("Uninitialize", ValueOf(PCAN_HANDLE), "none", status))]
    ELSE st

\* app.run returns; the finally clause (line 281-282) runs the hook, and the
\* interpreter runs it once more as the registered atexit function (line 40)
exit_process ==
    /\ Serving
    /\ LET st0 == [flag |-> pcan_initialized, chans |-> dev_channels, calls |-> <<>>]
       IN  \E s1 \in UninitializeResultsOn(st0.chans, ValueOf(PCAN_HANDLE)) :
             LET st1 == release_hardware_on_exit(st0, s1)
             IN  \E s2 \in UninitializeResultsOn(st1.chans, ValueOf(PCAN_HANDLE)) :
                   LET st2 == release_hardware_on_exit(st1, s2)
                   IN  /\ pcan_initialized' = st2.flag
                       /\ dev_channels' = st2.chans
                       /\ dev_last_call' =
                            IF st2.calls = <<>> THEN dev_last_call
                            ELSE LET c == st2.calls[Len(st2.calls)]
                                 IN  LifecycleCall(c.op, c.handle, c.status)
                       /\ last' = Observation("exit", pcan_initialized, NoBody,
                                      Response(200, TRUE, NoError), st2.calls, <<>>)
    /\ proc' = "exited"
    /\ UNCHANGED <<PCAN_HANDLE, BAUDRATE, IS_FD, tpms_vars, dev_kind, threads,
                   decoder_vars>>

----------------------------------------------------------------------------
(* Collection state: lines 51-71 *)

StartBodies == Opt("tire_count", 0..MaxTires)

\* line 54, 63, 71: the JSON every collection route answers with
CollectionReport(active) == [success |-> TRUE, is_collecting |-> active]

\* line 51-54
get_tpms_status ==
    /\ Serving
    /\ last' = Observation("tpms_status", pcan_initialized, NoBody,
                   Response(200, TRUE, NoError), <<>>,
                   CollectionReport(is_tpms_collection_active))
    /\ UNCHANGED <<prog_vars, device_vars, dev_kind, proc, threads, decoder_vars>>

\* line 56-63: tire_count is a local, printed and dropped
start_tpms_collection ==
    /\ Serving
    /\ \E body \in StartBodies :
         LET tire_count == DictGet(body, "tire_count", 0)
         IN  /\ is_tpms_collection_active' = TRUE
             /\ printed_tire_count' = <<tire_count>>
             /\ last' = Observation("tpms_start", pcan_initialized, body,
                            Response(200, TRUE, NoError), <<>>,
                            CollectionReport(TRUE))
    /\ UNCHANGED <<channel_vars, device_vars, dev_kind, proc, threads, decoder_vars>>

\* line 65-71
stop_tpms_collection ==
    /\ Serving
    /\ is_tpms_collection_active' = FALSE
    /\ last' = Observation("tpms_stop", pcan_initialized, NoBody,
                   Response(200, TRUE, NoError), <<>>, CollectionReport(FALSE))
    /\ UNCHANGED <<channel_vars, printed_tire_count, device_vars, dev_kind, proc,
                   threads, decoder_vars>>

----------------------------------------------------------------------------
(* TPMS decoder: lines 135-171 *)

RECURSIVE BitOr(_, _)
\* Python's | on non-negative integers
BitOr(a, b) ==
    IF a = 0 THEN b
    ELSE IF b = 0 THEN a
    ELSE 2 * BitOr(a \div 2, b \div 2) + (IF a % 2 = 1 \/ b % 2 = 1 THEN 1 ELSE 0)

RECURSIVE ShiftLeft(_, _)
\* Python's <<
ShiftLeft(a, n) == IF n = 0 THEN a ELSE ShiftLeft(2 * a, n - 1)

\* round(num / den, 2) in hundredths: the nearest hundredth, ties to even
Round2(num, den) ==
    LET scaled == 100 * num
        q == scaled \div den
        r == scaled % den
    IN  IF 2 * r > den \/ (2 * r = den /\ q % 2 = 1) THEN q + 1 ELSE q

NoReading == <<>>

\* mutant: 8 bytes are required, as the docstring says, and the temperature
\* bytes are taken in the order of the pressure bytes
parse_sensor_data_docstring(data_bytes) ==
    IF Len(data_bytes) < 8
    THEN NoReading
    ELSE <<[sensor_id |-> data_bytes[1],
            packet_type |-> data_bytes[2],
            pressure |-> BitOr(ShiftLeft(data_bytes[3], 8), data_bytes[4]),
            temperature |->
                Round2(BitOr(ShiftLeft(data_bytes[5], 8), data_bytes[6]) - 8500, 100),
            battery_watts |-> Round2((data_bytes[7] * 10) + 2000, 1000)]>>

\* line 144-168; a reading is <<record>>, None is <<>>; temperature and
\* battery_watts are carried in hundredths
parse_sensor_data(data_bytes) ==
    IF Len(data_bytes) < 7
    THEN NoReading
    ELSE LET sensor_id == data_bytes[1]
             packet_type == data_bytes[2]
             pressure == BitOr(ShiftLeft(data_bytes[3], 8), data_bytes[4])
             temp_raw == BitOr(ShiftLeft(data_bytes[6], 8), data_bytes[5])
             battery_mw == (data_bytes[7] * 10) + 2000
         IN  <<[sensor_id |-> sensor_id,
                packet_type |-> packet_type,
                pressure |-> pressure,
                temperature |-> Round2(temp_raw - 8500, 100),
                battery_watts |-> Round2(battery_mw, 1000)]>>

----------------------------------------------------------------------------
(* Frames: GET /api/read, lines 173-219 *)

HexDigits == <<"0", "1", "2", "3", "4", "5", "6", "7",
               "8", "9", "A", "B", "C", "D", "E", "F">>

RECURSIVE ToHex(_)
\* f"{n:X}": uppercase, no padding
ToHex(n) ==
    IF n < 16 THEN <<HexDigits[n + 1]>>
    ELSE Append(ToHex(n \div 16), HexDigits[(n % 16) + 1])

\* frames the device may hold in its receive queue: TPCANMsg carries LEN,
\* TPCANMsgFD carries DLC
QueuedFrames(is_fd) ==
    IF is_fd
    THEN {[ID |-> 511, MSGTYPE |-> 4, DLC |-> 8,
           DATA |-> <<1, 2, 1, 0, 52, 33, 0, 9>>]}
    ELSE {[ID |-> 511, MSGTYPE |-> 0, LEN |-> 8,
           DATA |-> <<1, 2, 1, 0, 52, 33, 0, 9>>],
          [ID |-> 26, MSGTYPE |-> 2, LEN |-> 3,
           DATA |-> <<7, 8, 9, 0, 0, 0, 0, 0>>]}

\* pcan.Read / pcan.ReadFD(handle)
ReadResults(handle_value) ==
    IF handle_value \in dev_channels
    THEN {PCAN_ERROR_OK, PCAN_ERROR_QRCVEMPTY, PCAN_ERROR_BUSOFF}
    ELSE {PCAN_ERROR_INITIALIZE}

\* line 176-179: which device read is used
ReadOp(is_fd) == IF is_fd THEN "ReadFD" ELSE "Read"

\* line 192-207
\* mutant: frames are decoded only while a collection session is active
MessageData_gated(can_msg, is_fd) ==
    LET data_len == IF ~is_fd THEN can_msg.LEN ELSE can_msg.DLC
        data_bytes == [i \in 1..data_len |-> can_msg.DATA[i]]
        parsed == IF data_len >= 7 /\ is_tpms_collection_active
                  THEN parse_sensor_data(data_bytes)
                  ELSE NoReading
    IN  [id |-> ToHex(can_msg.ID), msg_type |-> can_msg.MSGTYPE,
         len |-> data_len, data |-> data_bytes, parsed |-> parsed]

MessageData(can_msg, is_fd) ==
    LET data_len == IF ~is_fd THEN can_msg.LEN ELSE can_msg.DLC
        data_bytes == [i \in 1..data_len |-> can_msg.DATA[i]]
        parsed == IF data_len >= 7 THEN parse_sensor_data(data_bytes)
                  ELSE NoReading
    IN  [id |-> ToHex(can_msg.ID), msg_type |-> can_msg.MSGTYPE,
         len |-> data_len, data |-> data_bytes, parsed |-> parsed]

\* mutant: the empty queue is not told apart from a device error (no line
\* 182-183)
ReadResponse_noempty(status) ==
    IF status = PCAN_ERROR_OK
    THEN Response(200, TRUE, NoError)
    ELSE Response(500, FALSE, get_error_text(status))

\* line 181-186, 215-219 (the timestamp arithmetic is left out: it exceeds
\* the integers of the checker and is read by nothing else)
ReadResponse(status) ==
    IF status = PCAN_ERROR_QRCVEMPTY \/ status = PCAN_ERROR_OK
    THEN Response(200, TRUE, NoError)
    ELSE Response(500, FALSE, get_error_text(status))

read_message ==
    /\ Serving
    /\ \E status \in ReadResults(ValueOf(PCAN_HANDLE)) ,
          can_msg \in QueuedFrames(IS_FD) :
         LET call == DevCall(ReadOp(IS_FD), ValueOf(PCAN_HANDLE), "none", status)
         IN  /\ last' = Observation("read", pcan_initialized, NoBody,
                            ReadResponse(status), <<call>>,
                            IF status = PCAN_ERROR_OK
                            THEN <<MessageData(can_msg, IS_FD)>> ELSE <<>>)
    /\ UNCHANGED <<prog_vars, device_vars, dev_kind, proc, threads, decoder_vars>>

----------------------------------------------------------------------------
(* Frames: POST /api/write, lines 222-268 *)

DigitChars == <<"0", "1", "2", "3", "4", "5", "6", "7", "8", "9",
                "A", "B", "C", "D", "E", "F", "a", "b", "c", "d", "e", "f">>

\* the value of one base-16 digit, -1 for any other character
DigitValue(c) ==
    IF \E i \in 1..Len(DigitChars) : DigitChars[i] = c
    THEN LET i == CHOOSE i \in 1..Len(DigitChars) : DigitChars[i] = c
         IN  IF i > 16 THEN i - 7 ELSE i - 1
    ELSE -1

RECURSIVE HexValue(_)
HexValue(chars) ==
    IF chars = <<>> THEN 0
    ELSE 16 * HexValue(SubSeq(chars, 1, Len(chars) - 1))
         + DigitValue(chars[Len(chars)])

RECURSIVE StripLeft(_)
StripLeft(chars) ==
    IF chars # <<>> /\ chars[1] = " " THEN StripLeft(Tail(chars)) ELSE chars

RECURSIVE StripRight(_)
StripRight(chars) ==
    IF chars # <<>> /\ chars[Len(chars)] = " "
    THEN StripRight(SubSeq(chars, 1, Len(chars) - 1)) ELSE chars

\* the digits of a numeral with its single underscores taken out; <<>> where
\* the numeral is malformed (empty, a stray or doubled underscore, a
\* character that is no digit)
Digits(body, after_prefix) ==
    LET n == Len(body)
        well_formed ==
            /\ n > 0
            /\ body[n] # "_"
            /\ (body[1] = "_" => after_prefix /\ n > 1)
            /\ \A i \in 1..n :
                  IF body[i] = "_"
                  THEN i < n => body[i + 1] # "_"
                  ELSE DigitValue(body[i]) >= 0
    IN  IF well_formed THEN SelectSeq(body, LAMBDA c : c # "_") ELSE <<>>

\* line 242: int(s, 16): blanks around the numeral, a sign, a 0x prefix and
\* underscores between digits are all accepted; ok is FALSE where it raises
\* ValueError
ParseHex(chars) ==
    LET stripped == StripRight(StripLeft(chars))
        signed == stripped # <<>> /\ stripped[1] \in {"+", "-"}
        unsigned == IF signed THEN Tail(stripped) ELSE stripped
        prefixed == /\ Len(unsigned) >= 2
                    /\ unsigned[1] = "0"
                    /\ unsigned[2] \in {"x", "X"}
        body == IF prefixed THEN SubSeq(unsigned, 3, Len(unsigned)) ELSE unsigned
        digits == Digits(body, prefixed)
        magnitude == HexValue(digits)
    IN  IF digits # <<>>
        THEN [ok |-> TRUE,
              value |-> IF signed /\ stripped[1] = "-" THEN -magnitude
                        ELSE magnitude]
        ELSE [ok |-> FALSE, value |-> 0]

\* a Python int stored in a c_uint field (TPCANMsg.ID): kept modulo 2^32
\* without any range check, given here as its two 16-bit halves
Uint32(v) ==
    IF v >= 0
    THEN [hi |-> (v \div 65536) % 65536, lo |-> v % 65536]
    ELSE LET m == (-v) - 1
         IN  [hi |-> 65535 - ((m \div 65536) % 65536), lo |-> 65535 - (m % 65536)]

IdStrings == {<<"1", "F", "F">>, <<"8", "0", "0">>, <<"z", "z">>, <<"-", "1">>}
DataLists == {<<1, 2, 3, 4, 5, 6, 7, 8>>, <<1, 2, 3, 4, 5, 6, 7, 8, 9>>}

WriteBodies ==
    {i @@ d : i \in Opt("id", IdStrings), d \in Opt("data", DataLists)}
    \cup {("id" :> i) @@ e @@ r : i \in {<<"1", "F", "F">>, <<"8", "0", "0">>},
                                  e \in Opt("extended", {TRUE}),
                                  r \in Opt("rtr", {TRUE})}

\* the DATA array of TPCANMsg and of TPCANMsgFD
DataCapacity(is_fd) == IF is_fd THEN 64 ELSE 8

\* line 245-249: PCAN_MESSAGE_STANDARD | EXTENDED | RTR
MessageType(data) ==
    BitOr(BitOr(0, IF DictGet(data, "extended", FALSE) THEN 2 ELSE 0),
          IF DictGet(data, "rtr", FALSE) THEN 1 ELSE 0)

\* line 234-254: the message handed to the device
BuildMessage(data, is_fd) ==
    LET bytes == DictGet(data, "data", <<>>)
    IN  [ID |-> Uint32(ParseHex(data["id"]).value),
         MSGTYPE |-> MessageType(data),
         LEN |-> Len(bytes),
         DATA |-> [i \in 1..DataCapacity(is_fd) |->
                      IF i <= Len(bytes) THEN bytes[i] ELSE 0]]

\* line 232-254, 267: the exception building the message raises, if any
WriteException(data, is_fd) ==
    CASE "id" \notin DOMAIN data -> "KeyError"
      [] ~ParseHex(data["id"]).ok -> "ValueError"
      [] Len(DictGet(data, "data", <<>>)) > DataCapacity(is_fd) -> "IndexError"
      [] OTHER -> "none"

\* pcan.Write / pcan.WriteFD(handle, msg)
WriteResults(handle_value) ==
    IF handle_value \in dev_channels
    THEN {PCAN_ERROR_OK, PCAN_ERROR_BUSOFF}
    ELSE {PCAN_ERROR_INITIALIZE}

\* line 257-260
WriteOp(is_fd) == IF is_fd THEN "WriteFD" ELSE "Write"

\* line 262-265
WriteResponse(status) ==
    IF status = PCAN_ERROR_OK
    THEN Response(200, TRUE, NoError)
    ELSE Response(500, FALSE, get_error_text(status))

write_message ==
    /\ Serving
    /\ \E data \in WriteBodies :
         IF ~Truthy(data)
         THEN last' = Observation("write", pcan_initialized, data,
                          Response(400, FALSE, <<"invalid_json">>), <<>>, <<>>)
         ELSE LET exc == WriteException(data, IS_FD)
              IN  CASE exc \in {"KeyError", "ValueError", "TypeError"} ->
                         last' = Observation("write", pcan_initialized, data,
                                     Response(400, FALSE, <<"invalid_format", exc>>),
                                     <<>>, <<>>)
                    [] exc = "IndexError" ->
                         \* not among the caught exceptions: the framework
                         \* answers 500
                         last' = Observation("write", pcan_initialized, data,
                                     Response(500, FALSE, <<"unhandled", exc>>),
                                     <<>>, <<>>)
                    [] OTHER ->
                         \E status \in WriteResults(ValueOf(PCAN_HANDLE)) :
                           LET msg == BuildMessage(data, IS_FD)
                           IN  /\ last' = Observation("write", pcan_initialized,
                                     data, WriteResponse(status),
                                     <<DevCall(WriteOp(IS_FD), ValueOf(PCAN_HANDLE),
                                               msg, status)>>,
                                     <<>>)
    /\ UNCHANGED <<prog_vars, device_vars, dev_kind, proc, threads, decoder_vars>>

----------------------------------------------------------------------------
(* The server, one request at a time *)

Init ==
    /\ PCAN_HANDLE = PCAN_USBBUS1
    /\ BAUDRATE = PCAN_BAUD_500K
    /\ IS_FD = FALSE
    /\ pcan_initialized = FALSE
    /\ is_tpms_collection_active = FALSE
    /\ printed_tire_count = <<>>
    /\ dev_channels = {}
    /\ dev_kind \in DeviceKinds
    /\ dev_last_call = NoCall
    /\ proc = "serving"
    /\ last = [op |-> "none", again |-> FALSE, ready_before |-> FALSE,
               req |-> NoBody, resp |-> Response(200, TRUE, NoError),
               calls |-> <<>>, out |-> <<>>]
    /\ threads = [t \in 1..NThreads |-> Idle]
    /\ payload = <<>>
    /\ reading = NoReading

Next ==
    \/ init_can
    \/ release_can
    \/ get_status
    \/ read_message
    \/ write_message
    \/ get_tpms_status
    \/ start_tpms_collection
    \/ stop_tpms_collection
    \/ exit_process

Spec == Init /\ [][Next]_vars

----------------------------------------------------------------------------
(* The decoder alone: parse_sensor_data applied to every payload over a    *)
(* few byte values, among them the bytes of temp_raw = 8500 (33 * 256 + 52) *)

ByteSamples == {0, 33, 52, 255}

feed_payload ==
    /\ Len(payload) < MaxPayload
    /\ \E b \in ByteSamples :
         /\ payload' = Append(payload, b)
         /\ reading' = parse_sensor_data(payload')
    /\ UNCHANGED <<prog_vars, device_vars, dev_kind, proc, last, threads>>

InitDecoder == Init /\ dev_kind = "strict"

NextDecoder == feed_payload

SpecDecoder == InitDecoder /\ [][NextDecoder]_vars

----------------------------------------------------------------------------
(* The server handling requests on threads.  init_can and release_can are  *)
(* cut where another thread can run: around the call into the vendor       *)
(* library, which is made without any lock (no lock exists in the file).   *)

ThreadIds == 1..NThreads

ThreadInitBodies == {NoBody, "channel" :> "PCAN_USBBUS2", "is_fd" :> TRUE}

\* line 81-91: the request is read, the names resolved, IS_FD assigned
thread_init_begin(t) ==
    /\ proc = "serving"
    /\ threads[t] = Idle
    /\ \E data \in ThreadInitBodies :
         /\ IS_FD' = ResolveIsFd(data)
         /\ threads' = [threads EXCEPT ![t] =
                          [pc |-> "init_93",
                           pcan_handle_obj |-> ResolveHandle(data),
                           baudrate_obj |-> ResolveBaudrate(data)]]
    /\ UNCHANGED <<PCAN_HANDLE, BAUDRATE, pcan_initialized, tpms_vars,
                   device_vars, dev_kind, proc, last, decoder_vars>>

\* line 93-103: the global IS_FD is tested, then the device is called
thread_init_call(t) ==
    /\ threads[t].pc = "init_93"
    /\ IF FdRejected(IS_FD)
       THEN /\ threads' = [threads EXCEPT ![t] = Idle]
            /\ UNCHANGED device_vars
       ELSE \E status \in InitializeResults(ValueOf(threads[t].pcan_handle_obj)) :
              /\ dev_channels' = AfterInitialize(dev_channels,
                                     ValueOf(threads[t].pcan_handle_obj), status)
              /\ dev_last_call' = LifecycleCall("Initialize",
                                     ValueOf(threads[t].pcan_handle_obj), status)
              /\ threads' = [threads EXCEPT ![t] =
                               [pc |-> "init_105",
                                pcan_handle_obj |-> threads[t].pcan_handle_obj,
                                baudrate_obj |-> threads[t].baudrate_obj,
                                status |-> status]]
    /\ UNCHANGED <<prog_vars, dev_kind, proc, last, decoder_vars>>

\* line 105-112
thread_init_finish(t) ==
    /\ threads[t].pc = "init_105"
    /\ PCAN_HANDLE' = HandleAfterInit(threads[t].status, threads[t].pcan_handle_obj)
    /\ BAUDRATE' = BaudrateAfterInit(threads[t].status, threads[t].baudrate_obj)
    /\ pcan_initialized' = InitializedAfterInit(threads[t].status)
    /\ threads' = [threads EXCEPT ![t] = Idle]
    /\ UNCHANGED <<IS_FD, tpms_vars, device_vars, dev_kind, proc, last,
                   decoder_vars>>

\* line 118
thread_release_call(t) ==
    /\ proc = "serving"
    /\ threads[t] = Idle
    /\ \E status \in UninitializeResultsOn(dev_channels, ValueOf(PCAN_HANDLE)) :
         /\ dev_channels' =
              AfterUninitialize(dev_channels, ValueOf(PCAN_HANDLE), status)
         /\ dev_last_call' =
              LifecycleCall("Uninitialize", ValueOf(PCAN_HANDLE), status)
         /\ threads' = [threads EXCEPT ![t] =
                          [pc |-> "release_119", status |-> status]]
    /\ UNCHANGED <<prog_vars, dev_kind, proc, last, decoder_vars>>

\* line 119-123
thread_release_finish(t) ==
    /\ threads[t].pc = "release_119"
    /\ pcan_initialized' = InitializedAfterRelease(threads[t].status)
    /\ threads' = [threads EXCEPT ![t] = Idle]
    /\ UNCHANGED <<PCAN_HANDLE, BAUDRATE, IS_FD, tpms_vars, device_vars,
                   dev_kind, proc, last, decoder_vars>>

NextThreaded ==
    \E t \in ThreadIds :
        \/ thread_init_begin(t)
        \/ thread_init_call(t)
        \/ thread_init_finish(t)
        \/ thread_release_call(t)
        \/ thread_release_finish(t)

SpecThreaded == Init /\ [][NextThreaded]_vars

----------------------------------------------------------------------------
(* Properties *)

CallOps(calls) == {calls[i].op : i \in 1..Len(calls)}

\* C1: a read or a write made while the channel is Uninitialized returns
\* NotInitialized and makes no device read-frame or write-frame call.
C1_ReadWriteGuarded ==
    (last.op \in {"read", "write"} /\ ~last.ready_before)
        => /\ ErrorKind(last.resp) = "NotInitialized"
           /\ CallOps(last.calls) \cap {"Read", "ReadFD", "Write", "WriteFD"} = {}

\* C2: once the process has exited normally, no device channel is left
\* initialized (stated for a device whose Uninitialize does not fail, so
\* that a channel left behind is the program's doing).
C2_NothingLeftInitialized ==
    (proc = "exited" /\ dev_kind # "faulty") => dev_channels = {}

\* C3: an initialize made while the channel is Ready either is rejected
\* without a device Initialize, or first uninitializes the recorded handle.
C3_NoInitializeOverReady ==
    (last.op = "init" /\ last.ready_before)
        => \/ "Initialize" \notin CallOps(last.calls)
           \/ /\ Len(last.calls) >= 2
              /\ last.calls[1].op = "Uninitialize"
              /\ last.calls[2].op = "Initialize"

\* C4: an initialize that reaches the device (not FD) ends Ready with an
\* Ack when the device answers OK, and ends Uninitialized with a
\* DeviceError carrying the text of the device's status when it does not,
\* whatever the status was before.
C4_InitOutcome ==
    (last.op = "init" /\ last.calls # <<>>)
        => LET status == last.calls[1].status
           IN  IF status = PCAN_ERROR_OK
               THEN pcan_initialized /\ ErrorKind(last.resp) = "Ack"
               ELSE /\ ~pcan_initialized
                    /\ ErrorKind(last.resp) = "DeviceError"
                    /\ last.resp.error[1] \in {"text", "unknown"}
                    /\ last.resp.error[2] = status

\* C4 witness: a failed initialize on a channel that was Ready
C4_Witness ==
    /\ last.op = "init"
    /\ last.ready_before
    /\ last.calls # <<>>
    /\ last.calls[1].status # PCAN_ERROR_OK
    /\ ~pcan_initialized
    /\ last.resp.code = 500

\* C5: after a successful initialize the recorded configuration is the one
\* the device was initialized with, handle and baudrate both.
C5_RecordedConfig ==
    (last.op = "init" /\ last.calls # <<>>
        /\ last.calls[1].status = PCAN_ERROR_OK)
        => /\ ValueOf(PCAN_HANDLE) = last.calls[1].handle
           /\ ValueOf(BAUDRATE) = last.calls[1].arg

\* C6: an initialize whose body has is_fd = true returns NotImplemented and
\* makes no device call, whatever its other fields and the prior state.
C6_FdNotImplemented ==
    (last.op = "init" /\ DictGet(last.req, "is_fd", FALSE))
        => /\ ErrorKind(last.resp) = "NotImplemented"
           /\ last.calls = <<>>

\* C6 witness: is_fd = true on a Ready channel, with a channel name given
C6_Witness ==
    /\ last.op = "init"
    /\ DictGet(last.req, "is_fd", FALSE)
    /\ "channel" \in DOMAIN last.req
    /\ "baudrate" \in DOMAIN last.req
    /\ last.ready_before
    /\ last.resp.code = 501

\* C7: with a device whose Uninitialize is idempotent every release
\* succeeds, the second of two in succession too: it returns Ack and
\* leaves the channel Uninitialized.
C7_ReleaseIdempotent ==
    (dev_kind = "idempotent" /\ last.op = "release")
        => /\ ErrorKind(last.resp) = "Ack"
           /\ ~pcan_initialized

\* C7 witness: the second of two releases in succession, on a channel the
\* first one released
C7_Witness ==
    /\ dev_kind = "idempotent"
    /\ last.op = "release"
    /\ last.again
    /\ ~last.ready_before
    /\ last.resp.code = 200
    /\ ~pcan_initialized

\* C8: with requests running concurrently, once no request is in progress
\* the channel status agrees with the outcome of the last device
\* Initialize/Uninitialize call.
C8_StatusAgreesWithLastCall ==
    (\A t \in ThreadIds : threads[t] = Idle)
        => /\ (dev_last_call.op = "Initialize"
                  => pcan_initialized = (dev_last_call.status = PCAN_ERROR_OK))
           /\ (dev_last_call.op = "Uninitialize"
                  /\ dev_last_call.status = PCAN_ERROR_OK => ~pcan_initialized)

\* C9: the collection status reports the tire count of the last start,
\* also after a stop, together with the active flag.
C9_TireCountKept ==
    (last.op = "tpms_status" /\ printed_tire_count # <<>>)
        => /\ last.out.is_collecting = is_tpms_collection_active
           /\ "tire_count" \in DOMAIN last.out
           /\ last.out.tire_count = printed_tire_count[1]

WriteOps == {"Write", "WriteFD"}

\* section 6 of the design: an id is a numeral of base-16 digits alone
UnsignedHex(chars) ==
    chars # <<>> /\ \A i \in 1..Len(chars) : DigitValue(chars[i]) >= 0

\* C11: a write whose payload is longer than the 8 bytes of a classic frame
\* fails with InvalidFormat and is not handed to the device.
C11_OversizedRejected ==
    (last.op = "write" /\ ~IS_FD
        /\ Len(DictGet(last.req, "data", <<>>)) > DataCapacity(FALSE))
        => /\ ErrorKind(last.resp) = "InvalidFormat"
           /\ CallOps(last.calls) \cap WriteOps = {}

\* C12: a write whose id is missing, or is not a numeral of base-16 digits
\* alone (an unsigned integer), fails with InvalidFormat and is not handed
\* to the device.
C12_BadIdRejected ==
    (last.op = "write"
        /\ ("id" \notin DOMAIN last.req \/ ~UnsignedHex(last.req.id)))
        => /\ ErrorKind(last.resp) = "InvalidFormat"
           /\ CallOps(last.calls) \cap WriteOps = {}

\* C14: every frame handed to the device has a length field equal to the
\* number of payload bytes of the request, an id below 2^29, and an id
\* below 2^11 unless the extended flag is set (stated for requests whose
\* id is a numeral of base-16 digits alone).
C14_FrameInvariant ==
    (last.op = "write" /\ last.calls # <<>> /\ UnsignedHex(last.req.id))
        => LET msg == last.calls[1].arg
           IN  /\ msg.LEN = Len(DictGet(last.req, "data", <<>>))
               /\ msg.ID.hi < 8192
               /\ ~DictGet(last.req, "extended", FALSE)
                     => msg.ID.hi = 0 /\ msg.ID.lo < 2048

\* C15: the values initialize passes to the device are always a known
\* handle and a known baudrate, whatever names the body gives.
C15_KnownHandleAndBaudrate ==
    (last.op = "init" /\ last.calls # <<>>)
        => /\ last.calls[1].handle \in {ValueOf(h) : h \in KnownHandles}
           /\ last.calls[1].arg \in {ValueOf(b) : b \in KnownBaudrates}

\* C18: no FD channel is ever initialized, so while the channel is Ready
\* (after a successful classic initialize) read and write use the classic
\* device operations, never the FD ones.
C18_ClassicOperations ==
    (last.op \in {"read", "write"} /\ pcan_initialized)
        => CallOps(last.calls) \cap {"ReadFD", "WriteFD"} = {}

\* C19: while the server handles requests one at a time, pcan_initialized
\* is true exactly when the device channel of the recorded handle is
\* initialized.
C19_FlagAgreesWithDevice ==
    proc = "serving"
        => (pcan_initialized <=> ValueOf(PCAN_HANDLE) \in dev_channels)

C16_ReleaseOnSuccessOnly ==
    [][last'.op = "release" =>
         LET status == last'.calls[1].status
         IN  /\ Len(last'.calls) = 1
             /\ last'.calls[1].op = "Uninitialize"
             /\ status = PCAN_ERROR_OK =>
                  /\ ~pcan_initialized'
                  /\ last'.resp = Response(200, TRUE, NoError)
             /\ status # PCAN_ERROR_OK =>
                  /\ ErrorKind(last'.resp) = "DeviceError"
                  /\ last'.resp.error[2] = status
                  /\ UNCHANGED <<pcan_initialized, PCAN_HANDLE, IS_FD>>]_vars

\* C16 witness: a release of a Ready channel that the device refuses
C16_Witness ==
    /\ last.op = "release"
    /\ last.ready_before
    /\ last.calls[1].status # PCAN_ERROR_OK
    /\ pcan_initialized

\* C17: start and stop leave the channel state unchanged and call no
\* device operation; init, release, read, write and status leave the
\* collection session unchanged; a read parses a frame of at least seven
\* bytes whether or not collection is active.
C17_CollectionIndependent ==
    /\ [](/\ last.op \in {"tpms_start", "tpms_stop"} => last.calls = <<>>
          /\ (last.op = "read" /\ last.out # <<>>) =>
                last.out[1].parsed =
                   IF last.out[1].len >= 7
                   THEN parse_sensor_data(last.out[1].data) ELSE NoReading)
    /\ [][/\ last'.op \in {"tpms_start", "tpms_stop"} =>
               UNCHANGED <<channel_vars, device_vars>>
          /\ last'.op \in {"init", "release", "read", "write", "status"} =>
               UNCHANGED tpms_vars]_vars

\* C17 witness: a read on a Ready channel returns a decoded frame while no
\* collection session is active
C17_Witness ==
    /\ last.op = "read"
    /\ pcan_initialized
    /\ ~is_tpms_collection_active
    /\ last.out # <<>>
    /\ last.out[1].parsed # NoReading

====
